---- MODULE Spec2Model ----
(***************************************************************************)
(* The OAuth application settings screen (OAuthApplicationSettings.js) and *)
(* its delete confirmation (DeleteOAuthApplicationModal), as a state       *)
(* machine: the query result, the form (Formik: values, initialValues,     *)
(* isSubmitting), the showDeleteModal flag, the Apollo cache, the server,  *)
(* the requests in flight, the toasts raised and the onDelete callback.    *)
(***************************************************************************)
EXTENDS Integers, Sequences, FiniteSets, TLC

\* The number of update and delete requests one run may issue.
MaxRequests == 3

\* ------------------------------------------------------------------ data

AppId == "X"
OtherAppId == "Y"

Names == {"", "App", "New Name"}
Descriptions == {"", "x"}
RedirectUris == {"http://example.com/path", "not-a-url"}

\* The editable part of fragment ApplicationSettings (name, description,
\* redirectUri); id, clientId and clientSecret never change.
Applications == [name : Names, description : Descriptions, redirectUri : RedirectUris]

NoApplication == [name |-> "<none>", description |-> "<none>", redirectUri |-> "<none>"]

IsUrl(u) == u = "http://example.com/path"

\* validateOauthApplicationValues: the set of fields in error.
validateOauthApplicationValues(v) ==
    (IF v.name = "" THEN {"name"} ELSE {})
        \cup (IF ~IsUrl(v.redirectUri) THEN {"redirectUri"} ELSE {})

\* What the server stores: applications that pass its own validation.
ServerApplications == {a \in Applications : validateOauthApplicationValues(a) = {}}

TOAST_SUCCESS == "SUCCESS"
TOAST_ERROR == "ERROR"

CONFIRMATION_MODAL_TERMINATE == "TERMINATE"
Undefined == "undefined"

VARIABLES
    status,             \* useQuery: "Loading" | "Error" | "Ready"
    mounted,            \* the settings screen is mounted
    server,             \* [app, deleted]: the application as the API holds it
    cache,              \* Apollo cache: [application, listed, oAuthApplications]
    values,             \* Formik values
    initialValues,      \* Formik initialValues (the baseline)
    isSubmitting,       \* Formik isSubmitting
    showDeleteModal,    \* React.useState(false), line 87
    modalSubmitting,    \* ConfirmationModal: continueHandler is running
    hasUnsavedChanges,  \* the prop WarnIfUnsavedChanges was last rendered with
    updateReqs,         \* update requests awaiting their response
    deleteReqs,         \* delete requests awaiting their response
    outcome,            \* per request issued: [op, result]
    toasts,             \* addToast calls: [type, op, req]
    onDeleteCalls,      \* calls of the onDelete prop (router.push(backPath))
    confirmed,          \* the last Application the server delivered to the screen
    last,               \* the step just taken: [kind, req, before, live, wasDirty]
    props,              \* StyledInputField: the props of one field
    fieldMounted,       \* StyledInputField: the field has been rendered
    rendered            \* StyledInputField: what it rendered, [label, below]

screenVars == <<status, mounted, server, cache, values, initialValues, isSubmitting,
                showDeleteModal, modalSubmitting, hasUnsavedChanges, updateReqs,
                deleteReqs, outcome, toasts, onDeleteCalls, confirmed, last>>

fieldVars == <<props, fieldMounted, rendered>>

vars == <<screenVars, fieldVars>>

\* ------------------------------------------------------- derived values

\* Formik: dirty = !isEqual(initialValues, values)
dirty == values # initialValues

\* data.application.name, line 105
displayedName == cache.application.name

NoSnapshot == [initialValues |-> NoApplication, name |-> "<none>", listed |-> {}]

\* What a request remembers of the screen and the cache as it was sent.
Snapshot ==
    [initialValues |-> initialValues, name |-> displayedName,
     listed |-> cache.oAuthApplications.ids]

\* The record of a step: its kind, the request it settles or sends, that
\* request's snapshot, and whether the screen was mounted and the form dirty
\* as the step began.
Step(kind, req, before) ==
    [kind |-> kind, req |-> req, before |-> before, live |-> mounted,
     wasDirty |-> dirty]

Ready == mounted /\ status = "Ready"

\* Once onDelete has pushed backPath the page is being left.
Interactive == Ready /\ onDeleteCalls = 0

\* The confirmation is a modal dialog: while it is shown the form under it
\* takes no input.
FormReachable == Interactive /\ ~showDeleteModal

ReqCount == Len(outcome)

\* ------------------------------------------------------------ rendering

\* Variant: the guard forgets the delete confirmation.
WarnPropIgnoringModal == dirty

\* <WarnIfUnsavedChanges hasUnsavedChanges={dirty && !showDeleteModal} />
WarnIfUnsavedChangesProp == dirty /\ ~showDeleteModal

\* Variant: the submit button never shows as loading.
SubmitNeverLoading == FALSE

\* Submit button: loading={isSubmitting} disabled={!dirty}
SubmitLoading == isSubmitting

SubmitDisabled == ~dirty

\* Delete button: disabled={isSubmitting}
DeleteDisabled == isSubmitting

\* StyledButton: a button that is loading or disabled takes no action.
StyledButtonInert(loading, disabled) == loading \/ disabled

\* Every handler ends in a render of the screen with the new state; an
\* unmounted screen, or one not Ready, renders no WarnIfUnsavedChanges.
Rerender ==
    hasUnsavedChanges' = (mounted /\ status = "Ready" /\ WarnIfUnsavedChangesProp)'

\* ----------------------------------------------------------------- Init

ScreenInit ==
    /\ status = "Loading"
    /\ mounted = TRUE
    /\ \E a \in ServerApplications : server = [app |-> a, deleted |-> FALSE]
    /\ \E listed \in BOOLEAN :
         cache = [application |-> NoApplication,
                  oAuthApplications |->
                      [present |-> listed,
                       ids |-> IF listed THEN {AppId, OtherAppId} ELSE {}]]
    /\ values = NoApplication
    /\ initialValues = NoApplication
    /\ isSubmitting = FALSE
    /\ showDeleteModal = FALSE
    /\ modalSubmitting = FALSE
    /\ hasUnsavedChanges = FALSE
    /\ updateReqs = <<>>
    /\ deleteReqs = <<>>
    /\ outcome = <<>>
    /\ toasts = <<>>
    /\ onDeleteCalls = 0
    /\ confirmed = NoApplication
    /\ last = [kind |-> "init", req |-> 0, before |-> NoSnapshot, live |-> TRUE,
               wasDirty |-> FALSE]

\* ----------------------------------------------------------------- load

\* useQuery(applicationQuery) resolves: Formik mounts with
\* initialValues={data.application}.
LoadSucceeded ==
    /\ mounted /\ status = "Loading"
    /\ status' = "Ready"
    /\ cache' = [cache EXCEPT !.application = server.app]
    /\ values' = server.app
    /\ initialValues' = server.app
    /\ confirmed' = server.app
    /\ last' = Step("load", 0, NoSnapshot)
    /\ UNCHANGED <<mounted, server, isSubmitting, showDeleteModal, modalSubmitting,
                   updateReqs, deleteReqs, outcome, toasts, onDeleteCalls>>
    /\ Rerender
    /\ UNCHANGED fieldVars

\* useQuery fails: MessageBoxGraphqlError replaces the form.
LoadFailed ==
    /\ mounted /\ status = "Loading"
    /\ status' = "Error"
    /\ last' = Step("loadError", 0, NoSnapshot)
    /\ UNCHANGED <<mounted, server, cache, values, initialValues, isSubmitting,
                   showDeleteModal, modalSubmitting, updateReqs, deleteReqs,
                   outcome, toasts, onDeleteCalls, confirmed>>
    /\ Rerender
    /\ UNCHANGED fieldVars

\* Leaving the page (the go-back link, or any other navigation).
Unmount ==
    /\ mounted
    /\ mounted' = FALSE
    /\ last' = Step("unmount", 0, NoSnapshot)
    /\ UNCHANGED <<status, server, cache, values, initialValues, isSubmitting,
                   showDeleteModal, modalSubmitting, updateReqs, deleteReqs,
                   outcome, toasts, onDeleteCalls, confirmed>>
    /\ Rerender
    /\ UNCHANGED fieldVars

\* ----------------------------------------------------------------- form

\* The user types in one of the three StyledInputFormikField inputs.
Edit ==
    /\ FormReachable
    /\ \E v \in Applications :
         /\ v # values
         /\ Cardinality({f \in {"name", "description", "redirectUri"} : v[f] # values[f]}) = 1
         /\ values' = v
    /\ last' = Step("edit", 0, NoSnapshot)
    /\ UNCHANGED <<status, mounted, server, cache, initialValues, isSubmitting,
                   showDeleteModal, modalSubmitting, updateReqs, deleteReqs,
                   outcome, toasts, onDeleteCalls, confirmed>>
    /\ Rerender
    /\ UNCHANGED fieldVars

\* pick(values, ['name', 'description', 'redirectUri'])
filteredValues(v) ==
    [name |-> v.name, description |-> v.description, redirectUri |-> v.redirectUri]

\* The form is submitted: Formik validates, and only values without errors
\* reach onSubmit, which sends updateApplication and awaits it.
Submit ==
    /\ FormReachable
    /\ ~StyledButtonInert(SubmitLoading, SubmitDisabled)
    /\ IF validateOauthApplicationValues(values) # {}
       THEN /\ last' = Step("invalid", 0, NoSnapshot)
            /\ UNCHANGED <<isSubmitting, updateReqs, outcome>>
       ELSE /\ ReqCount < MaxRequests
            /\ isSubmitting' = TRUE
            /\ updateReqs' = Append(updateReqs,
                   [req |-> ReqCount + 1, input |-> filteredValues(values),
                    before |-> Snapshot])
            /\ outcome' = Append(outcome, [op |-> "update", result |-> "pending"])
            /\ last' = Step("submit", ReqCount + 1, NoSnapshot)
    /\ UNCHANGED <<status, mounted, server, cache, values, initialValues,
                   showDeleteModal, modalSubmitting, deleteReqs, toasts,
                   onDeleteCalls, confirmed>>
    /\ Rerender
    /\ UNCHANGED fieldVars

RemoveAt(s, i) == SubSeq(s, 1, i - 1) \o SubSeq(s, i + 1, Len(s))

Toast(type, op, req) == [type |-> type, op |-> op, req |-> req]

\* onSubmit, try branch: the toast raised after the awaited mutation.
UpdateSuccessToasts(req) == <<Toast(TOAST_SUCCESS, "update", req)>>

\* Variant: the catch branch swallows the error.
UpdateErrorSwallowed(req) == <<>>

\* onSubmit, catch branch.
UpdateErrorToasts(req) == <<Toast(TOAST_ERROR, "update", req)>>

\* Variant: the form is not reset to the returned values.
ResetFormKeepsCurrent(result, current) == current

\* resetForm({ values: result.data.updateApplication })
ResetFormValues(result, current) == result

\* The API applies the partial update and returns the stored Application.
ServerUpdate(app, input) ==
    [f \in DOMAIN app |-> IF f \in DOMAIN input THEN input[f] ELSE app[f]]

\* updateApplication resolves: the cache takes the returned Application, the
\* toast is raised and the form is reset to the returned values.  An
\* unmounted Formik has no state left to reset.
UpdateSucceeded ==
    /\ ~server.deleted
    /\ \E i \in 1..Len(updateReqs) :
         LET r == updateReqs[i]
             result == ServerUpdate(server.app, r.input)
         IN /\ updateReqs' = RemoveAt(updateReqs, i)
            /\ server' = [server EXCEPT !.app = result]
            /\ cache' = [cache EXCEPT !.application = result]
            /\ outcome' = [outcome EXCEPT ![r.req].result = "ok"]
            /\ toasts' = toasts \o UpdateSuccessToasts(r.req)
            /\ IF mounted
               THEN /\ values' = ResetFormValues(result, values)
                    /\ initialValues' = ResetFormValues(result, initialValues)
                    /\ confirmed' = result
                    /\ isSubmitting' = FALSE
               ELSE UNCHANGED <<values, initialValues, confirmed, isSubmitting>>
            /\ last' = Step("updateOk", r.req, r.before)
    /\ UNCHANGED <<status, mounted, showDeleteModal, modalSubmitting, deleteReqs,
                   onDeleteCalls>>
    /\ Rerender
    /\ UNCHANGED fieldVars

\* updateApplication rejects (transport error, or the server refuses).
UpdateFailed ==
    /\ \E i \in 1..Len(updateReqs) :
         LET r == updateReqs[i]
         IN /\ updateReqs' = RemoveAt(updateReqs, i)
            /\ outcome' = [outcome EXCEPT ![r.req].result = "failed"]
            /\ toasts' = toasts \o UpdateErrorToasts(r.req)
            /\ isSubmitting' = IF mounted THEN FALSE ELSE isSubmitting
            /\ last' = Step("updateFail", r.req, r.before)
    /\ UNCHANGED <<status, mounted, server, cache, values, initialValues,
                   showDeleteModal, modalSubmitting, deleteReqs, onDeleteCalls,
                   confirmed>>
    /\ Rerender
    /\ UNCHANGED fieldVars

\* --------------------------------------------------------------- delete

\* The Delete button: onClick={() => setShowDeleteModal(true)}
OpenDeleteModal ==
    /\ FormReachable
    /\ ~StyledButtonInert(FALSE, DeleteDisabled)
    /\ showDeleteModal' = TRUE
    /\ modalSubmitting' = FALSE
    /\ last' = Step("open", 0, NoSnapshot)
    /\ UNCHANGED <<status, mounted, server, cache, values, initialValues,
                   isSubmitting, updateReqs, deleteReqs, outcome, toasts,
                   onDeleteCalls, confirmed>>
    /\ Rerender
    /\ UNCHANGED fieldVars

\* onClose={() => setShowDeleteModal(false)}: the modal is cancelled, which
\* it allows while no continueHandler is running.
CloseDeleteModal ==
    /\ Interactive
    /\ showDeleteModal /\ ~modalSubmitting
    /\ showDeleteModal' = FALSE
    /\ last' = Step("close", 0, NoSnapshot)
    /\ UNCHANGED <<status, mounted, server, cache, values, initialValues,
                   isSubmitting, modalSubmitting, updateReqs, deleteReqs, outcome,
                   toasts, onDeleteCalls, confirmed>>
    /\ Rerender
    /\ UNCHANGED fieldVars

\* The modal's confirm button runs continueHandler, which sends
\* deleteApplication({ variables: { id: application.id } }) and awaits it.
ConfirmDelete ==
    /\ Interactive
    /\ showDeleteModal /\ ~modalSubmitting
    /\ ReqCount < MaxRequests
    /\ modalSubmitting' = TRUE
    /\ deleteReqs' = Append(deleteReqs,
           [req |-> ReqCount + 1, before |-> Snapshot, stage |-> "request"])
    /\ outcome' = Append(outcome, [op |-> "delete", result |-> "pending"])
    /\ last' = Step("confirm", ReqCount + 1, NoSnapshot)
    /\ UNCHANGED <<status, mounted, server, cache, values, initialValues,
                   isSubmitting, showDeleteModal, updateReqs, toasts,
                   onDeleteCalls, confirmed>>
    /\ Rerender
    /\ UNCHANGED fieldVars

\* Variant: the application is evicted but the account's listing is kept.
DeleteEvictOnly(c) == [c EXCEPT !.application = NoApplication]

\* useMutation's update: cache.evict of the application and cache.gc, then
\* cache.modify of the account deleting its oAuthApplications field.
DeleteUpdateCache(c) ==
    [application |-> NoApplication,
     oAuthApplications |-> [present |-> FALSE, ids |-> {}]]

\* Variant: continueHandler terminates the modal on failure too.
continueHandlerAlwaysTerminates(ok) == CONFIRMATION_MODAL_TERMINATE

\* continueHandler: what it returns to ConfirmationModal.
continueHandlerResult(ok) == IF ok THEN CONFIRMATION_MODAL_TERMINATE ELSE Undefined

\* continueHandler: the calls of onDelete(application) it makes.
continueHandlerOnDelete(ok) == IF ok THEN 1 ELSE 0

\* Variant: the success toast is raised before onDelete is awaited.
continueHandlerToastsEarly(stage, ok, req) ==
    IF stage = "request"
    THEN (IF ok THEN <<Toast(TOAST_SUCCESS, "delete", req)>>
                ELSE <<Toast(TOAST_ERROR, "delete", req)>>)
    ELSE <<>>

\* continueHandler: the toasts it raises as the awaited deleteApplication
\* settles (stage "request") and as the awaited onDelete settles (stage
\* "onDelete").
continueHandlerToasts(stage, ok, req) ==
    IF stage = "request"
    THEN (IF ok THEN <<>> ELSE <<Toast(TOAST_ERROR, "delete", req)>>)
    ELSE <<Toast(TOAST_SUCCESS, "delete", req)>>

\* ConfirmationModal after continueHandler settled: it stays submitting on
\* CONFIRMATION_MODAL_TERMINATE and is ready for another confirmation
\* otherwise.
ConfirmationModalSubmitting(result) == result = CONFIRMATION_MODAL_TERMINATE

\* deleteApplication resolves: the cache is updated and onDelete(application),
\* that is router.push(backPath), is called and awaited.
DeleteSucceeded ==
    /\ ~server.deleted
    /\ \E i \in 1..Len(deleteReqs) :
         LET r == deleteReqs[i]
         IN /\ r.stage = "request"
            /\ deleteReqs' = [deleteReqs EXCEPT ![i].stage = "onDelete"]
            /\ outcome' = [outcome EXCEPT ![r.req].result = "deleted"]
            /\ toasts' = toasts \o continueHandlerToasts("request", TRUE, r.req)
            /\ last' = Step("deleteOk", r.req, r.before)
    /\ server' = [server EXCEPT !.deleted = TRUE]
    /\ cache' = DeleteUpdateCache(cache)
    /\ onDeleteCalls' = onDeleteCalls + continueHandlerOnDelete(TRUE)
    /\ UNCHANGED <<status, mounted, values, initialValues, isSubmitting,
                   showDeleteModal, modalSubmitting, updateReqs, confirmed>>
    /\ Rerender
    /\ UNCHANGED fieldVars

\* The awaited onDelete resolves: the success toast is raised and
\* CONFIRMATION_MODAL_TERMINATE returned.
OnDeleteSettled ==
    /\ \E i \in 1..Len(deleteReqs) :
         LET r == deleteReqs[i]
         IN /\ r.stage = "onDelete"
            /\ deleteReqs' = RemoveAt(deleteReqs, i)
            /\ outcome' = [outcome EXCEPT ![r.req].result = "ok"]
            /\ toasts' = toasts \o continueHandlerToasts("onDelete", TRUE, r.req)
            /\ last' = Step("deleteDone", r.req, r.before)
    /\ modalSubmitting' = IF mounted
                          THEN ConfirmationModalSubmitting(continueHandlerResult(TRUE))
                          ELSE modalSubmitting
    /\ UNCHANGED <<status, mounted, server, cache, values, initialValues,
                   isSubmitting, showDeleteModal, updateReqs, onDeleteCalls,
                   confirmed>>
    /\ Rerender
    /\ UNCHANGED fieldVars

\* deleteApplication rejects: the catch branch raises the error toast.
DeleteFailed ==
    /\ \E i \in 1..Len(deleteReqs) :
         LET r == deleteReqs[i]
         IN /\ r.stage = "request"
            /\ deleteReqs' = RemoveAt(deleteReqs, i)
            /\ outcome' = [outcome EXCEPT ![r.req].result = "failed"]
            /\ toasts' = toasts \o continueHandlerToasts("request", FALSE, r.req)
            /\ last' = Step("deleteFail", r.req, r.before)
    /\ onDeleteCalls' = onDeleteCalls + continueHandlerOnDelete(FALSE)
    /\ modalSubmitting' = IF mounted
                          THEN ConfirmationModalSubmitting(continueHandlerResult(FALSE))
                          ELSE modalSubmitting
    /\ UNCHANGED <<status, mounted, server, cache, values, initialValues,
                   isSubmitting, showDeleteModal, updateReqs, confirmed>>
    /\ Rerender
    /\ UNCHANGED fieldVars

\* ------------------------------------------------------ StyledInputField

\* JavaScript values a prop may hold, by type and text.
JsUndefined == [type |-> "undefined", text |-> ""]
JsString(t) == [type |-> "string", text |-> t]
JsBoolean(b) == [type |-> "boolean", text |-> IF b THEN "true" ELSE "false"]

\* JavaScript truthiness.
Truthy(v) ==
    CASE v.type = "undefined" -> FALSE
      [] v.type = "string" -> v.text # ""
      [] v.type = "boolean" -> v.text = "true"
      [] OTHER -> TRUE

RequiredValues == {JsUndefined, JsBoolean(TRUE), JsBoolean(FALSE)}
ErrorValues == {JsUndefined, JsString(""), JsString("Required"), JsBoolean(TRUE), JsBoolean(FALSE)}
HintValues == {JsUndefined, JsString(""), JsString("A short description")}
LabelValues == {JsUndefined, JsString("Name of the app")}
HelpTextValues == {JsUndefined, JsString("help")}
InputTypes == {"text", "checkbox"}

FieldProps ==
    [label : LabelValues, required : RequiredValues, hideOptionalLabel : BOOLEAN,
     useRequiredLabel : BOOLEAN, inputType : InputTypes, isPrivate : BOOLEAN,
     helpText : HelpTextValues, error : ErrorValues, hint : HintValues]

NoProps ==
    [label |-> JsUndefined, required |-> JsUndefined, hideOptionalLabel |-> FALSE,
     useRequiredLabel |-> FALSE, inputType |-> "text", isPrivate |-> FALSE,
     helpText |-> JsUndefined, error |-> JsUndefined, hint |-> JsUndefined]

NotRendered == [label |-> <<>>, below |-> <<>>]

\* const isCheckbox = inputType === 'checkbox'
isCheckbox(p) == p.inputType = "checkbox"

\* Variant: required-label mode hides the optional qualifier too.
displayOptionalLabelUnlessRequiredMode(p) ==
    IF p.hideOptionalLabel \/ p.useRequiredLabel THEN FALSE
    ELSE p.required = JsBoolean(FALSE)

\* const displayOptionalLabel = hideOptionalLabel ? false : required === false
displayOptionalLabel(p) ==
    IF p.hideOptionalLabel THEN FALSE ELSE p.required = JsBoolean(FALSE)

\* const displayRequiredLabel = useRequiredLabel ? required === true : false
displayRequiredLabel(p) ==
    IF p.useRequiredLabel THEN p.required = JsBoolean(TRUE) ELSE FALSE

PrivateIcon(p) == IF p.isPrivate THEN <<"private">> ELSE <<>>

\* The children of the <P as="label">, in order; nothing without a label.
RenderLabel(p) ==
    IF ~Truthy(p.label) THEN <<>>
    ELSE (IF displayOptionalLabel(p) /\ ~isCheckbox(p)
             THEN <<"label", "(optional)">> \o PrivateIcon(p)
          ELSE IF displayRequiredLabel(p)
             THEN <<"label", "*">> \o PrivateIcon(p)
          ELSE <<"label">> \o PrivateIcon(p))
         \o (IF Truthy(p.helpText) THEN <<"help">> ELSE <<>>)

\* {error && typeof error === 'string' && ...}
RenderError(p) ==
    IF Truthy(p.error) /\ p.error.type = "string" THEN <<"error">> ELSE <<>>

\* Variant: the hint is rendered whatever the error.
RenderHintAlways(p) == IF Truthy(p.hint) THEN <<"hint">> ELSE <<>>

\* {hint && !error && ...}
RenderHint(p) ==
    IF Truthy(p.hint) /\ ~Truthy(p.error) THEN <<"hint">> ELSE <<>>

StyledInputField(p) ==
    [label |-> RenderLabel(p), below |-> RenderError(p) \o RenderHint(p)]

Has(seq, x) == \E i \in 1..Len(seq) : seq[i] = x

FieldIdle ==
    /\ props = NoProps
    /\ fieldMounted = FALSE
    /\ rendered = NotRendered

\* A field is created with any props.
FieldInit ==
    /\ ScreenInit
    /\ props \in FieldProps
    /\ fieldMounted = FALSE
    /\ rendered = NotRendered

\* First render of the field.
RenderField ==
    /\ ~fieldMounted
    /\ fieldMounted' = TRUE
    /\ rendered' = StyledInputField(props)
    /\ UNCHANGED <<props, screenVars>>

\* The parent renders the field again with another error or hint (validation
\* ran, the message changed).
UpdateField ==
    /\ fieldMounted
    /\ \E e \in ErrorValues, h \in HintValues :
         /\ <<e, h>> # <<props.error, props.hint>>
         /\ props' = [props EXCEPT !.error = e, !.hint = h]
    /\ rendered' = StyledInputField(props')
    /\ UNCHANGED <<fieldMounted, screenVars>>

FieldNext == RenderField \/ UpdateField

FieldSpec == FieldInit /\ [][FieldNext]_vars

\* ----------------------------------------------------------------- spec

Init == ScreenInit /\ FieldIdle

Next ==
    \/ LoadSucceeded
    \/ LoadFailed
    \/ Unmount
    \/ Edit
    \/ Submit
    \/ UpdateSucceeded
    \/ UpdateFailed
    \/ OpenDeleteModal
    \/ CloseDeleteModal
    \/ ConfirmDelete
    \/ DeleteSucceeded
    \/ OnDeleteSettled
    \/ DeleteFailed

Spec == Init /\ [][Next]_vars

TypeOK ==
    /\ status \in {"Loading", "Error", "Ready"}
    /\ mounted \in BOOLEAN
    /\ server.app \in ServerApplications
    /\ values \in Applications \cup {NoApplication}
    /\ initialValues \in Applications \cup {NoApplication}
    /\ Len(outcome) <= MaxRequests
    /\ Len(toasts) <= MaxRequests

\* --------------------------------------------------------------- claims

ToastsOf(req) == {i \in 1..Len(toasts) : toasts[i].req = req}

OneToast(req, type, op) ==
    /\ Cardinality(ToastsOf(req)) = 1
    /\ \A i \in ToastsOf(req) : toasts[i] = Toast(type, op, req)

Responses == {"updateOk", "updateFail", "deleteOk", "deleteFail"}

\* C1: on a Ready screen the unsaved-changes guard is active if and only if
\* the form is dirty (its values differ from the baseline) and the delete
\* confirmation is closed.
C1_GuardIffDirtyAndNoDeleteModal ==
    Ready => (hasUnsavedChanges <=> (values # initialValues /\ ~showDeleteModal))

\* C1 witness: a dirty form under an open delete confirmation, guard off,
\* after a submission has settled.
C1_Witness ==
    /\ Ready /\ dirty /\ showDeleteModal /\ ~hasUnsavedChanges
    /\ \E r \in 1..Len(outcome) : outcome[r] = [op |-> "update", result |-> "failed"]

\* C2: the baseline equals the last Application the server delivered: the
\* fetched one after the load, the returned one after a successful update
\* (with the form clean and a success toast raised for it); edits leave it.
C2_BaselineIsLastServerValue ==
    /\ Ready => initialValues = confirmed
    /\ last.kind = "load" => initialValues = cache.application /\ ~dirty
    /\ last.kind = "edit" => initialValues = confirmed
    /\ (last.kind = "updateOk" /\ last.live) =>
          /\ initialValues = cache.application
          /\ initialValues = server.app
          /\ ~dirty
          /\ OneToast(last.req, TOAST_SUCCESS, "update")

\* C2 witness: a successful update has just replaced the baseline by a
\* different one.
C2_Witness ==
    /\ last.kind = "updateOk" /\ last.live
    /\ initialValues # last.before.initialValues
    /\ initialValues.name = "New Name"

\* C3 as stated: after a failed update the baseline and the displayed name are
\* those of the submission, the form is dirty, and exactly one toast, an error,
\* is raised for the submission.
C3_FailedUpdateLeavesFormDirty ==
    (last.kind = "updateFail" /\ last.live) =>
        /\ initialValues = last.before.initialValues
        /\ displayedName = last.before.name
        /\ dirty
        /\ OneToast(last.req, TOAST_ERROR, "update")

\* C3 amended: after a failed update the baseline and the displayed name are
\* those of the submission, the dirty flag is what it was just before the
\* response arrived, and exactly one toast, an error, is raised for the
\* submission.
C3_FailedUpdateLeavesFormUntouched ==
    (last.kind = "updateFail" /\ last.live) =>
        /\ initialValues = last.before.initialValues
        /\ initialValues = confirmed
        /\ displayedName = last.before.name
        /\ dirty = last.wasDirty
        /\ OneToast(last.req, TOAST_ERROR, "update")

\* C3 witness: a failed update has just settled on a dirty form.
C3_Witness == last.kind = "updateFail" /\ last.live /\ dirty

DeleteRequests(results) ==
    {r \in 1..Len(outcome) : outcome[r].op = "delete" /\ outcome[r].result \in results}

C6_FailedDeleteKeepsModalOpen ==
    /\ Len(deleteReqs) <= 1
    /\ (last.kind = "deleteFail" /\ last.live) =>
          /\ showDeleteModal
          /\ ~modalSubmitting
          /\ OneToast(last.req, TOAST_ERROR, "delete")
          /\ onDeleteCalls = 0
          /\ deleteReqs = <<>>

\* C6 witness: a delete has just failed after an earlier one failed too (the
\* user confirmed again).
C6_Witness ==
    /\ last.kind = "deleteFail" /\ last.live /\ showDeleteModal
    /\ \E r \in 1..Len(outcome) :
         r # last.req /\ outcome[r] = [op |-> "delete", result |-> "failed"]

\* C7: a response that arrives after the screen was unmounted is discarded: no
\* toast is raised for its request, onDelete is not called and the form is
\* left as it was.
C7_ResponseAfterUnmountDiscarded ==
    (last.kind \in Responses /\ ~last.live) =>
        /\ ToastsOf(last.req) = {}
        /\ onDeleteCalls = 0
        /\ initialValues = last.before.initialValues

NonEmptyText(v) == v.type = "string" /\ v.text # ""

\* C9 as stated: a non-empty text error is rendered below the field and the
\* hint is not; in every other case a hint that exists is rendered.
C9_HintWheneverNoTextError ==
    fieldMounted =>
        /\ NonEmptyText(props.error)
              => (Has(rendered.below, "error") /\ ~Has(rendered.below, "hint"))
        /\ (~NonEmptyText(props.error) /\ Truthy(props.hint))
              => Has(rendered.below, "hint")

\* C9 amended: a non-empty text error is rendered below the field and the hint
\* is not; with a falsy error a hint that exists is rendered and no error is;
\* with a truthy error that is not text neither is rendered.
C9_HintOnlyWithoutError ==
    fieldMounted =>
        /\ NonEmptyText(props.error)
              => (Has(rendered.below, "error") /\ ~Has(rendered.below, "hint"))
        /\ (~Truthy(props.error) /\ Truthy(props.hint))
              => (Has(rendered.below, "hint") /\ ~Has(rendered.below, "error"))
        /\ (Truthy(props.error) /\ ~NonEmptyText(props.error))
              => rendered.below = <<>>

\* C9 witness: a field that had a hint was rendered again with a text error,
\* which replaced the hint.
C9_Witness ==
    /\ fieldMounted /\ NonEmptyText(props.error) /\ Truthy(props.hint)
    /\ rendered.below = <<"error">>

\* C10: each delete request raises no toast while it or its onDelete is
\* pending and exactly one once it has settled, a success only after the
\* request succeeded and onDelete completed, an error otherwise; onDelete is
\* called only once the delete request has succeeded.
C10_OneToastPerConfirmInOrder ==
    /\ \A r \in DeleteRequests({"pending", "deleted"}) : ToastsOf(r) = {}
    /\ \A r \in DeleteRequests({"ok"}) :
           OneToast(r, TOAST_SUCCESS, "delete") /\ server.deleted /\ onDeleteCalls = 1
    /\ \A r \in DeleteRequests({"failed"}) : OneToast(r, TOAST_ERROR, "delete")
    /\ onDeleteCalls > 0 => server.deleted
    /\ onDeleteCalls = Cardinality(DeleteRequests({"deleted", "ok"}))
    /\ Len(toasts) <= Len(outcome)

\* C10 witness: a failed delete and then a successful one, each with its own
\* toast, the second raised after onDelete completed.
C10_Witness ==
    /\ last.kind = "deleteDone"
    /\ DeleteRequests({"failed"}) # {}
    /\ DeleteRequests({"ok"}) # {}

====
